---- MODULE Spec2Model ----
(***************************************************************************)
(* A model of the two notebooks of the repository:                         *)
(*   - the custom evaluator notebook: ManhattanDistanceEvaluator           *)
(*     (__init__, reset, step, calculate);                                 *)
(*   - examples/1_two_spiral_task.ipynb: TwoSpiralDataset (__init__,       *)
(*     __getitem__, __len__) and the three samplers handed to the data     *)
(*     loaders.                                                            *)
(* Floating point values are modelled by integers (every value used is     *)
(* exactly representable in float64); the float32 conversion of the        *)
(* dataset arrays rounds to a 24 bit significand as numpy does.            *)
(***************************************************************************)
EXTENDS Integers, Sequences, FiniteSets

VARIABLES
    \* ---- ManhattanDistanceEvaluator ----
    model_output_key,   \* self._model_output_key (None or a key)
    batch_target_key,   \* self._batch_target_key
    outputs,            \* self._outputs
    targets,            \* self._targets
    evalCall,           \* the evaluator method called last
    evalRet,            \* what that call returned
    stepped,            \* the (output, batch) arguments of the step calls since the last reset
    discarded,          \* how many accumulated outputs the last reset threw away
    \* ---- TwoSpiralDataset ----
    resource,           \* the text served at the dataset's URL
    fetches,            \* number of requests.get calls made so far
    dsPhase,            \* "new" (not constructed), "built", "failed"
    ds,                 \* the dataset object: None or [pos, target]
    dsErr,              \* the exception the constructor raised, or None
    dsCall,             \* the dataset method called last, with its argument
    dsRet,              \* what that call returned (or the exception it raised)
    \* ---- samplers of the three data loaders ----
    loader,             \* the loader being iterated: "idle", "train", "val", "test"
    cursor,             \* position of a sequential sampler in its index list
    drawn               \* the index the sampler yielded last (-1: none yet)

evalVars == <<model_output_key, batch_target_key, outputs, targets, evalCall,
              evalRet, stepped, discarded>>
dataVars == <<resource, fetches, dsPhase, ds, dsErr, dsCall, dsRet>>
loadVars == <<loader, cursor, drawn>>
vars == <<evalVars, dataVars, loadVars>>

\* Python's None where an object (a result, a dataset, an exception) may stand
None == [none |-> TRUE]
\* Python's None where a dictionary key may stand
NoKey == "None"

\* ---- bounds of the model ----
\* longest batch handed to step
MaxBatch == 2
\* most values the evaluator accumulates between two resets
MaxAcc == 3
\* most fragments (newline separated pieces) of the served text
MaxFrags == 4

----------------------------------------------------------------------------
(***************************************************************************)
(* numpy helpers used by ManhattanDistanceEvaluator.calculate              *)
(***************************************************************************)
Abs(x) == IF x < 0 THEN -x ELSE x

\* np.array(a) - np.array(b), elementwise, for 1-d arrays of one length
NpSub(a, b) == [i \in 1..Len(a) |-> a[i] - b[i]]

\* np.abs(a)
NpAbs(a) == [i \in 1..Len(a) |-> Abs(a[i])]

RECURSIVE NpSum(_)
\* np.sum(a); the sum of the empty array is 0
NpSum(a) == IF a = <<>> THEN 0 ELSE Head(a) + NpSum(Tail(a))

\* a plausible slip: the name mean_distance taken at its word
MeanScore(outs, tgts) ==
    IF outs = <<>> THEN 0 ELSE NpSum(NpAbs(NpSub(outs, tgts))) \div Len(outs)

\* np.sum(np.abs(np.array(self._outputs) - np.array(self._targets)))
ManhattanScore(outs, tgts) == NpSum(NpAbs(NpSub(outs, tgts)))

\* GenericEvaluatorResults(score, label, score_format, is_max_better)
GenericEvaluatorResults(score) ==
    [score |-> score, label |-> "manh-dist", score_format |-> "%f",
     is_max_better |-> FALSE]

\* ---- the values a step call can be given ----
OutVals == {-1, 2}
TgtVals == {0, 1}
\* a second tensor of a mapping, different from the first in every entry
Other(s) == [i \in 1..Len(s) |-> s[i] + 1]

\* the model's output: a tensor, or (model_output_key set) a mapping of tensors
OutputArg(key, o) == IF key = NoKey THEN o ELSE [out |-> o, aux |-> Other(o)]

\* the batch made by the DataLoader: a mapping of tensors
BatchArg(key, t) ==
    IF key = "target" THEN [input |-> Other(t), target |-> t, label |-> Other(t)]
                      ELSE [input |-> Other(t), target |-> Other(t), label |-> t]

\* output[self._model_output_key] when the key is set, else output
SelectOutput(key, output) == IF key # NoKey THEN output[key] ELSE output

\* the dataset and the loaders while only the evaluator runs
DataIdle ==
    /\ resource = <<>>
    /\ fetches = 0
    /\ dsPhase = "new"
    /\ ds = None
    /\ dsErr = None
    /\ dsCall = [op |-> "none"]
    /\ dsRet = None

LoadIdle ==
    /\ loader = "idle"
    /\ cursor = 0
    /\ drawn = -1

EvalInit ==
    /\ model_output_key \in {NoKey, "out"}
    /\ batch_target_key \in {"target", "label"}
    /\ outputs = <<>>
    /\ targets = <<>>
    /\ evalCall = "init"
    /\ evalRet = None
    /\ stepped = <<>>
    /\ discarded = 0

\* a plausible slip: reset forgets one of the two lists
ResetOutputsOnly ==
    /\ outputs' = <<>>
    /\ targets' = targets
    /\ evalCall' = "reset"
    /\ evalRet' = None
    /\ stepped' = <<>>
    /\ discarded' = Len(outputs)
    /\ UNCHANGED <<model_output_key, batch_target_key>>
    /\ UNCHANGED <<dataVars, loadVars>>

\* ManhattanDistanceEvaluator.reset
Reset ==
    /\ outputs' = <<>>
    /\ targets' = <<>>
    /\ evalCall' = "reset"
    /\ evalRet' = None
    /\ stepped' = <<>>
    /\ discarded' = Len(outputs)
    /\ UNCHANGED <<model_output_key, batch_target_key>>
    /\ UNCHANGED <<dataVars, loadVars>>

\* ManhattanDistanceEvaluator.step(output, batch)
Step(output, batch) ==
    /\ Len(outputs) + Len(SelectOutput(model_output_key, output)) <= MaxAcc
    /\ outputs' = outputs \o SelectOutput(model_output_key, output)
    /\ targets' = targets \o batch[batch_target_key]
    /\ evalCall' = "step"
    /\ evalRet' = None
    /\ stepped' = Append(stepped, [output |-> output, batch |-> batch])
    /\ UNCHANGED <<model_output_key, batch_target_key, discarded>>
    /\ UNCHANGED <<dataVars, loadVars>>

\* ManhattanDistanceEvaluator.calculate
Calculate ==
    /\ evalCall' = "calculate"
    /\ evalRet' = GenericEvaluatorResults(ManhattanScore(outputs, targets))
    /\ UNCHANGED <<model_output_key, batch_target_key, outputs, targets,
                   stepped, discarded>>
    /\ UNCHANGED <<dataVars, loadVars>>

\* the calls the System makes on an evaluator: every batch carries as many
\* targets as the model gives outputs
NextEvaluator ==
    \/ Reset
    \/ \E n \in 1..MaxBatch : \E o \in [1..n -> OutVals], t \in [1..n -> TgtVals] :
          Step(OutputArg(model_output_key, o), BatchArg(batch_target_key, t))
    \/ Calculate

----------------------------------------------------------------------------
InitEvaluator == EvalInit /\ DataIdle /\ LoadIdle
SpecEvaluator == InitEvaluator /\ [][NextEvaluator]_vars

----------------------------------------------------------------------------
(***************************************************************************)
(* Properties of the evaluator                                             *)
(***************************************************************************)
\* what a step call's arguments hold for the evaluator as configured
OutputOf(call) ==
    IF model_output_key = NoKey THEN call.output ELSE call.output[model_output_key]
TargetOf(call) == call.batch[batch_target_key]

RECURSIVE PairSum(_)
\* sum over the calls, call by call, of |output - target| over the call's pairs
PairSum(calls) ==
    IF calls = <<>> THEN 0
    ELSE PairSum(Tail(calls))
         + NpSum([i \in 1..Len(OutputOf(Head(calls))) |->
                    Abs(OutputOf(Head(calls))[i] - TargetOf(Head(calls))[i])])

RECURSIVE ConcatOutputs(_)
ConcatOutputs(calls) ==
    IF calls = <<>> THEN <<>> ELSE OutputOf(Head(calls)) \o ConcatOutputs(Tail(calls))

RECURSIVE ConcatTargets(_)
ConcatTargets(calls) ==
    IF calls = <<>> THEN <<>> ELSE TargetOf(Head(calls)) \o ConcatTargets(Tail(calls))

\* C1: calculate returns a result whose score is the sum (not the mean) of
\* |output - target| over every pair accumulated by the step calls made since
\* the most recent reset (or construction), the accumulated outputs and
\* targets being the concatenation, in call order, of each stepped batch.
C1_ScoreIsSumOfAbsDiffs ==
    evalCall = "calculate" =>
        /\ evalRet.score = PairSum(stepped)
        /\ outputs = ConcatOutputs(stepped)
        /\ targets = ConcatTargets(stepped)

\* a calculate after two or more steps whose pairs differ
C1_Witness ==
    /\ evalCall = "calculate"
    /\ Len(stepped) >= 2
    /\ Len(outputs) >= 3
    /\ evalRet.score >= 4

\* C2: reset empties both accumulators whatever preceded it, so the
\* accumulators (and hence any later score) hold only what was stepped after
\* the most recent reset: nothing carries over.
C2_ResetEmptiesAccumulators ==
    /\ evalCall = "reset" => outputs = <<>> /\ targets = <<>>
    /\ Len(outputs) = Len(ConcatOutputs(stepped))
    /\ Len(targets) = Len(ConcatTargets(stepped))
    /\ evalCall = "calculate" =>
          evalRet.score = ManhattanScore(ConcatOutputs(stepped), ConcatTargets(stepped))

\* a reset that threw accumulated values away, then new steps and a calculate
C2_Witness ==
    /\ discarded >= 2
    /\ evalCall = "calculate"
    /\ stepped # <<>>

----------------------------------------------------------------------------
(***************************************************************************)
(* TwoSpiralDataset.  A text is a sequence of characters.                  *)
(***************************************************************************)
NL == "\n"
TAB == "\t"

\* the position of the first sep in s, 0 when s holds none
Find(s, sep) ==
    IF \E i \in 1..Len(s) : s[i] = sep
    THEN CHOOSE i \in 1..Len(s) : s[i] = sep /\ \A k \in 1..(i - 1) : s[k] # sep
    ELSE 0

RECURSIVE Split(_, _)
\* str.split(sep) for a one character separator: the text up to the first
\* separator, then the split of what follows it; one fragment more than the
\* text has separators, empty fragments kept
Split(s, sep) ==
    LET p == Find(s, sep) IN
    IF p = 0 THEN <<s>>
    ELSE <<SubSeq(s, 1, p - 1)>> \o Split(SubSeq(s, p + 1, Len(s)), sep)

\* a plausible slip: str.splitlines(), which gives no empty fragment after a
\* final newline
SplitLines(text) ==
    LET fr == Split(text, NL) IN
    IF fr[Len(fr)] = <<>> THEN SubSeq(fr, 1, Len(fr) - 1) ELSE fr

\* raw_tsv_request.text.split('\n')
TextFragments(text) == Split(text, NL)

\* a plausible slip: only the header is cut off, lines[1:]
SliceFromSecond(lines) == SubSeq(lines, 2, Len(lines))

\* lines[1:-1]
SliceInner(lines) == SubSeq(lines, 2, Len(lines) - 1)

Digits == <<"0", "1", "2", "3", "4", "5", "6", "7", "8", "9">>
IsDigit(c) == \E i \in 1..Len(Digits) : Digits[i] = c
DigitVal(c) == (CHOOSE i \in 1..Len(Digits) : Digits[i] = c) - 1

RECURSIVE DecimalVal(_)
DecimalVal(ds_) ==
    IF ds_ = <<>> THEN 0
    ELSE DecimalVal(SubSeq(ds_, 1, Len(ds_) - 1)) * Len(Digits) + DigitVal(ds_[Len(ds_)])

\* whether float(field) succeeds: an optional sign, then digits
FloatOk(field) ==
    LET body == IF field # <<>> /\ Head(field) = "-" THEN Tail(field) ELSE field
    IN  body # <<>> /\ \A i \in 1..Len(body) : IsDigit(body[i])

\* float(field), for a field float accepts
Float(field) ==
    IF Head(field) = "-" THEN -DecimalVal(Tail(field)) ELSE DecimalVal(field)

\* the float32 significand holds 24 bits
Float32Limit == 16777216

RECURSIVE Float32Ulp(_, _)
\* the spacing of float32 values around a: the least power of two p with
\* a < 2^24 * p
Float32Ulp(a, p) == IF a < Float32Limit * p THEN p ELSE Float32Ulp(a, 2 * p)

\* conversion to dtype float32: round to nearest, ties to even
Float32(x) ==
    LET a == Abs(x)
        p == Float32Ulp(a, 1)
        q == a \div p
        r == a % p
        m == IF 2 * r > p \/ (2 * r = p /\ q % 2 = 1) THEN (q + 1) * p ELSE q * p
    IN  IF x < 0 THEN -m ELSE m

ValueError(at, why) == [type |-> "ValueError", at |-> at, why |-> why]

RECURSIVE ParseSkippingBad(_, _, _, _)
\* a plausible slip: a malformed line is skipped instead of raising
ParseSkippingBad(lines, i, pos, target) ==
    IF i > Len(lines) THEN [err |-> None, pos |-> pos, target |-> target]
    ELSE LET fields == Split(lines[i], TAB) IN
         IF Len(fields) # 3 \/ \E f \in 1..3 : ~FloatOk(fields[f])
         THEN ParseSkippingBad(lines, i + 1, pos, target)
         ELSE ParseSkippingBad(lines, i + 1,
                      Append(pos, <<Float(fields[1]), Float(fields[2])>>),
                      Append(target, Float(fields[3])))

RECURSIVE ParseFrom(_, _, _, _)
\* the for loop of __init__ from its i-th line on: the first line that does
\* not unpack into three fields, or holds a field float rejects, raises
ParseFrom(lines, i, pos, target) ==
    IF i > Len(lines) THEN [err |-> None, pos |-> pos, target |-> target]
    ELSE LET fields == Split(lines[i], TAB) IN
         IF Len(fields) # 3 THEN [err |-> ValueError(i, "unpack")]
         ELSE IF ~FloatOk(fields[1]) \/ ~FloatOk(fields[2])
              THEN [err |-> ValueError(i, "float")]
         ELSE IF ~FloatOk(fields[3]) THEN [err |-> ValueError(i, "float")]
         ELSE ParseFrom(lines, i + 1,
                        Append(pos, <<Float(fields[1]), Float(fields[2])>>),
                        Append(target, Float(fields[3])))

\* np.array(self.pos, dtype='float32')
PosArray(pos) == [i \in 1..Len(pos) |-> <<Float32(pos[i][1]), Float32(pos[i][2])>>]
\* np.array(self.target, dtype='float32')
TargetArray(target) == [i \in 1..Len(target) |-> Float32(target[i])]

\* ---- the texts the URL may serve ----
HeaderLine == <<"x", TAB, "y", TAB, "t">>
LineA == <<"1", TAB, "2", TAB, "0">>
LineB == <<"1", "6", "7", "7", "7", "2", "1", "7", TAB, "-", "3", TAB, "1">>
ShortLine == <<"1", TAB, "2">>
LongLine == <<"1", TAB, "2", TAB, "0", TAB, "1">>
NanLine == <<"1", TAB, "x", TAB, "0">>
EmptyLine == <<>>
LineSet == {HeaderLine, LineA, LineB, ShortLine, LongLine, NanLine, EmptyLine}

RECURSIVE Join(_)
\* the fragments with a newline between each two
Join(frags) ==
    IF Len(frags) = 1 THEN frags[1] ELSE frags[1] \o <<NL>> \o Join(Tail(frags))

Texts == {Join(fr) : fr \in UNION {[1..k -> LineSet] : k \in 1..MaxFrags}}

\* the evaluator while only the dataset or the loaders run
EvalIdle ==
    /\ model_output_key = NoKey
    /\ batch_target_key = "target"
    /\ outputs = <<>>
    /\ targets = <<>>
    /\ evalCall = "init"
    /\ evalRet = None
    /\ stepped = <<>>
    /\ discarded = 0

DataInit ==
    /\ resource \in Texts
    /\ fetches = 0
    /\ dsPhase = "new"
    /\ ds = None
    /\ dsErr = None
    /\ dsCall = [op |-> "none"]
    /\ dsRet = None

\* TwoSpiralDataset.__init__: requests.get either raises (no connection) or
\* gives the served text; the text is split, parsed and stored as float32
Construct ==
    /\ dsPhase = "new"
    /\ fetches' = fetches + 1
    /\ dsCall' = [op |-> "init"]
    /\ dsRet' = None
    /\ \E connected \in BOOLEAN :
         IF ~connected
         THEN /\ dsPhase' = "failed"
              /\ ds' = None
              /\ dsErr' = [type |-> "ConnectionError"]
         ELSE LET r == ParseFrom(SliceInner(TextFragments(resource)), 1, <<>>, <<>>) IN
              IF r.err # None
              THEN /\ dsPhase' = "failed"
                   /\ ds' = None
                   /\ dsErr' = r.err
              ELSE /\ dsPhase' = "built"
                   /\ ds' = [pos |-> PosArray(r.pos), target |-> TargetArray(r.target)]
                   /\ dsErr' = None
    /\ UNCHANGED resource
    /\ UNCHANGED <<evalVars, loadVars>>

\* numpy's index into an array of n entries: negative indices count from the end
ArrayIndex(n, i) ==
    IF 0 <= i /\ i < n THEN i + 1
    ELSE IF -n <= i /\ i < 0 THEN n + i + 1
    ELSE 0

\* a plausible slip: the target is read one entry too far
GetItemShifted(item_index) ==
    /\ dsPhase = "built"
    /\ dsCall' = [op |-> "getitem", arg |-> item_index]
    /\ LET n == Len(ds.target)
           j == ArrayIndex(n, item_index)
           t == ArrayIndex(n, item_index + 1)
       IN  dsRet' = IF j = 0 \/ t = 0 THEN [raised |-> "IndexError"]
                    ELSE [value |-> [input |-> ds.pos[j], target |-> ds.target[t]]]
    /\ UNCHANGED <<resource, fetches, dsPhase, ds, dsErr>>
    /\ UNCHANGED <<evalVars, loadVars>>

\* TwoSpiralDataset.__getitem__(item_index)
GetItem(item_index) ==
    /\ dsPhase = "built"
    /\ dsCall' = [op |-> "getitem", arg |-> item_index]
    /\ LET j == ArrayIndex(Len(ds.pos), item_index) IN
       dsRet' = IF j = 0 THEN [raised |-> "IndexError"]
                ELSE [value |-> [input |-> ds.pos[j], target |-> ds.target[j]]]
    /\ UNCHANGED <<resource, fetches, dsPhase, ds, dsErr>>
    /\ UNCHANGED <<evalVars, loadVars>>

\* a plausible slip: the number of stored coordinates, self.pos.size
LenOfPosSize ==
    /\ dsPhase = "built"
    /\ dsCall' = [op |-> "len"]
    /\ dsRet' = [value |-> 2 * Len(ds.pos)]
    /\ UNCHANGED <<resource, fetches, dsPhase, ds, dsErr>>
    /\ UNCHANGED <<evalVars, loadVars>>

\* TwoSpiralDataset.__len__
LenCall ==
    /\ dsPhase = "built"
    /\ dsCall' = [op |-> "len"]
    /\ dsRet' = [value |-> Len(ds.target)]
    /\ UNCHANGED <<resource, fetches, dsPhase, ds, dsErr>>
    /\ UNCHANGED <<evalVars, loadVars>>

InitDataset == EvalIdle /\ DataInit /\ LoadIdle
NextDataset ==
    \/ Construct
    \/ \E i \in (1 - MaxFrags)..(MaxFrags - 1) : GetItem(i)
    \/ LenCall
SpecDataset == InitDataset /\ [][NextDataset]_vars

----------------------------------------------------------------------------
(***************************************************************************)
(* Properties of the dataset.  The pieces of a text are found here from    *)
(* the positions of its separators, not by the constructor's split.        *)
(***************************************************************************)
SepPositions(s, sep) == {i \in 1..Len(s) : s[i] = sep}
PieceCount(s, sep) == Cardinality(SepPositions(s, sep)) + 1

\* the position of the n-th separator; 0 before the text, Len + 1 after it
NthSep(s, sep, n) ==
    IF n = 0 THEN 0
    ELSE IF n > Cardinality(SepPositions(s, sep)) THEN Len(s) + 1
    ELSE CHOOSE p \in SepPositions(s, sep) :
            Cardinality({q \in SepPositions(s, sep) : q <= p}) = n

\* the j-th piece of s between separators
Piece(s, sep, j) == SubSeq(s, NthSep(s, sep, j - 1) + 1, NthSep(s, sep, j) - 1)

\* three tab separated fields, each a number
WellFormed(line) ==
    /\ PieceCount(line, TAB) = 3
    /\ \A f \in 1..3 : FloatOk(Piece(line, TAB, f))

\* the record a well formed line stands for, as stored (float32)
RecordOf(line) ==
    [input  |-> <<Float32(Float(Piece(line, TAB, 1))), Float32(Float(Piece(line, TAB, 2)))>>,
     target |-> Float32(Float(Piece(line, TAB, 3)))]

\* the j-th newline separated fragment of the served text (the header is the first)
Fragment(j) == Piece(resource, NL, j)
FragmentCount == PieceCount(resource, NL)
EndsWithNewline == resource # <<>> /\ resource[Len(resource)] = NL
Max(a, b) == IF a >= b THEN a ELSE b

\* the lines of the text: each newline ends one, and so does the end of a
\* text that does not end with a newline
LineCount ==
    Cardinality(SepPositions(resource, NL))
    + (IF resource # <<>> /\ ~EndsWithNewline THEN 1 ELSE 0)

\* the construction reached the parsing loop: the fetch did not fail
Parsed == dsPhase # "new" /\ dsErr # [type |-> "ConnectionError"]

\* C3: for every index i with 0 <= i < len(dataset), __getitem__(i) returns a
\* mapping with exactly the keys 'input' and 'target', holding the coordinate
\* pair and the label of the i-th record of the file, records numbered in
\* the order of their lines (the header, fragment 1, is not a record).
C3_GetItemReturnsIthRecord ==
    (dsCall.op = "getitem" /\ 0 <= dsCall.arg /\ dsCall.arg < Len(ds.target)) =>
        /\ DOMAIN dsRet = {"value"}
        /\ DOMAIN dsRet.value = {"input", "target"}
        /\ dsRet.value = RecordOf(Fragment(dsCall.arg + 2))

\* __getitem__(1) on a dataset whose two records differ
C3_Witness ==
    /\ dsCall.op = "getitem"
    /\ dsCall.arg = 1
    /\ Len(ds.target) = 2
    /\ dsRet.value.target # ds.target[1]
    /\ dsRet.value.input # ds.pos[1]

\* C4: after a successful construction the coordinate array and the label
\* array have the same number of entries, entry i of each comes from the same
\* source line, and __len__ returns that common number.
C4_OneLabelPerCoordinate ==
    dsPhase = "built" =>
        /\ Len(ds.pos) = Len(ds.target)
        /\ \A i \in 1..Len(ds.pos) :
              /\ ds.pos[i] = RecordOf(Fragment(i + 1)).input
              /\ ds.target[i] = RecordOf(Fragment(i + 1)).target
        /\ dsCall.op = "len" => dsRet = [value |-> Len(ds.pos)]

\* __len__ called on a dataset of two different records
C4_Witness ==
    /\ dsCall.op = "len"
    /\ dsRet = [value |-> 2]
    /\ ds.pos[1] # ds.pos[2]
    /\ ds.target[1] # ds.target[2]

\* C5 as stated: every line of the text contributes exactly one record, and
\* the resource is fetched once, at construction.
C5_EveryLineOneRecord ==
    /\ dsPhase = "built" => Len(ds.target) = LineCount
    /\ fetches = (IF dsPhase = "new" THEN 0 ELSE 1)

\* C5 as amended: every newline terminated line of the text other than the
\* first (the header) contributes exactly one record, in order, and the
\* resource is fetched once, at construction, never again by __getitem__ or
\* __len__.
C5_EveryInnerLineOneRecord ==
    /\ dsPhase = "built" =>
          /\ Len(ds.target) = Max(Cardinality(SepPositions(resource, NL)) - 1, 0)
          /\ Len(ds.pos) = Max(Cardinality(SepPositions(resource, NL)) - 1, 0)
          /\ \A i \in 1..Len(ds.target) :
                <<ds.pos[i], ds.target[i]>> =
                    <<RecordOf(Fragment(i + 1)).input, RecordOf(Fragment(i + 1)).target>>
    /\ fetches = (IF dsPhase = "new" THEN 0 ELSE 1)

\* two records built from a text, and a later __getitem__
C5_Witness ==
    /\ dsPhase = "built"
    /\ Len(ds.target) = 2
    /\ dsCall.op = "getitem"
    /\ fetches = 1

\* the parsed fragments that are malformed
MalformedInner == {j \in 2..(FragmentCount - 1) : ~WellFormed(Fragment(j))}

\* C6: if a line the constructor parses is malformed (not exactly three tab
\* separated fields, or a field that is not a number), construction fails
\* with that line's error: no dataset object, the line is not skipped (the
\* error is that of the first malformed line), nothing is fetched again.
C6_MalformedLineFailsConstruction ==
    (Parsed /\ MalformedInner # {}) =>
        /\ dsPhase = "failed"
        /\ ds = None
        /\ dsErr.type = "ValueError"
        /\ \A j \in MalformedInner : dsErr.at + 1 <= j
        /\ dsErr.at + 1 \in MalformedInner
        /\ fetches = 1

\* the second parsed line holds a field that is not a number
C6_Witness ==
    /\ dsPhase = "failed"
    /\ dsErr = ValueError(2, "float")
    /\ Fragment(3) = NanLine
    /\ Fragment(2) = LineB

\* C8: the constructor parses only the fragments strictly between the first
\* and the last: whether it succeeds depends on those alone, a text of k
\* fragments yields max(k - 2, 0) records, and a text that does not end with
\* a newline loses its final line.
C8_OnlyInnerFragmentsParsed ==
    Parsed =>
        /\ dsPhase = "built" <=> MalformedInner = {}
        /\ dsPhase = "built" => Len(ds.target) = Max(FragmentCount - 2, 0)
        /\ (dsPhase = "built" /\ ~EndsWithNewline /\ FragmentCount >= 2) =>
              Len(ds.target) = LineCount - 2

\* a text of four fragments without a final newline: the header and the final
\* data line are left out
C8_Witness ==
    /\ dsPhase = "built"
    /\ FragmentCount = 4
    /\ Fragment(1) = HeaderLine
    /\ Fragment(4) = LineA
    /\ Len(ds.target) = 2

----------------------------------------------------------------------------
(***************************************************************************)
(* The samplers of the three data loaders.  A sampler yields, one at a     *)
(* time, the entries of the index list it was built with: the sequential   *)
(* sampler in list order, the random sampler in an order of its choosing   *)
(* (its position in that order is not tracked here, so a behaviour of the  *)
(* model may repeat an index: every index it yields is one the sampler can *)
(* yield).                                                                 *)
(***************************************************************************)
\* the number of examples the notebook says the dataset holds
DatasetSize == 1000

\* list(range(a, b))
RangeList(a, b) == [i \in 1..(b - a) |-> a + i - 1]

\* the entries of an index list
Entries(list) == {list[i] : i \in 1..Len(list)}

\* a plausible slip: the training range runs one index into the validation range
TrainIndicesOneMore == RangeList(0, 801)

\* list(range(0, 800)), given to the training loader's SubsetRandomSampler
TrainIndices == RangeList(0, 800)
\* list(range(800, 900)), given to the validation loader's SubsetSequentialSampler
ValIndices == RangeList(800, 900)
\* list(range(900, 1000)), given to the test loader's SubsetSequentialSampler
TestIndices == RangeList(900, 1000)

IndicesOf(l) ==
    IF l = "train" THEN TrainIndices ELSE IF l = "val" THEN ValIndices ELSE TestIndices

\* iteration over one of the loaders begins
StartLoader(l) ==
    /\ loader = "idle"
    /\ loader' = l
    /\ cursor' = 0
    /\ drawn' = -1
    /\ UNCHANGED <<evalVars, dataVars>>

\* the training loader's SubsetRandomSampler yields an index of its list
DrawRandom ==
    /\ loader = "train"
    /\ \E i \in 1..Len(TrainIndices) : drawn' = TrainIndices[i]
    /\ UNCHANGED <<loader, cursor>>
    /\ UNCHANGED <<evalVars, dataVars>>

\* a SubsetSequentialSampler yields the next index of its list
DrawSequential ==
    /\ loader \in {"val", "test"}
    /\ cursor < Len(IndicesOf(loader))
    /\ drawn' = IndicesOf(loader)[cursor + 1]
    /\ cursor' = cursor + 1
    /\ UNCHANGED loader
    /\ UNCHANGED <<evalVars, dataVars>>

\* the iteration ends: a sequential sampler has yielded its whole list
FinishLoader ==
    /\ loader # "idle"
    /\ drawn # -1
    /\ loader \in {"val", "test"} => cursor = Len(IndicesOf(loader))
    /\ loader' = "idle"
    /\ cursor' = 0
    /\ drawn' = -1
    /\ UNCHANGED <<evalVars, dataVars>>

InitLoaders == EvalIdle /\ DataIdle /\ LoadIdle
NextLoaders ==
    \/ \E l \in {"train", "val", "test"} : StartLoader(l)
    \/ DrawRandom
    \/ DrawSequential
    \/ FinishLoader
SpecLoaders == InitLoaders /\ [][NextLoaders]_vars

\* C7: the three loaders partition the dataset's 1000 examples: training
\* 0..799 (800), validation 800..899 (100), test 900..999 (100), pairwise
\* disjoint, together every index 0..999, so no index the validation or the
\* test loader uses is ever drawn for training.
C7_LoadersPartitionDataset ==
    /\ Entries(TrainIndices) = 0..799
    /\ Entries(ValIndices) = 800..899
    /\ Entries(TestIndices) = 900..999
    /\ Len(TrainIndices) = 800 /\ Len(ValIndices) = 100 /\ Len(TestIndices) = 100
    /\ Entries(TrainIndices) \cap Entries(ValIndices) = {}
    /\ Entries(TrainIndices) \cap Entries(TestIndices) = {}
    /\ Entries(ValIndices) \cap Entries(TestIndices) = {}
    /\ Entries(TrainIndices) \cup Entries(ValIndices) \cup Entries(TestIndices)
          = 0..(DatasetSize - 1)
    /\ (loader = "train" /\ drawn # -1) =>
          drawn \notin Entries(ValIndices) \cup Entries(TestIndices)
    /\ (loader \in {"val", "test"} /\ drawn # -1) =>
          drawn \in Entries(IndicesOf(loader)) \ Entries(TrainIndices)

\* the training sampler draws the last index of its range
C7_Witness ==
    /\ loader = "train"
    /\ drawn = 799

====
